---- MODULE Spec2Model ----
(***************************************************************************)
(* Model of the flask-gevent tutorial services:                            *)
(*   slow_api/api.py   the Delay Service (aiohttp, asyncio.sleep)          *)
(*   flask_app/app.py  the Front Service, API variant (served by           *)
(*                     flask_app/pywsgi.py under gevent)                   *)
(*   flask_app/db.py   the Front Service, Database variant                 *)
(*                                                                         *)
(* Time is a discrete clock; durations are counted in milliseconds.        *)
(* Query strings are sequences of one-character strings, so that int(),    *)
(* float() and the f-string formatting are computed, not assumed.          *)
(***************************************************************************)
EXTENDS Integers, Sequences, FiniteSets

\* ------------------------------------------------------------------ bounds
MaxReq == 2          \* client requests to the Delay Service in one run
MaxFront == 1        \* client requests to the Front Service in one run
MaxTime == 3         \* clock ticks in one run
TickMs == 1000       \* milliseconds per clock tick

\* asyncio.sleep and pg_sleep count seconds; the model counts milliseconds.
Second == 1000

Reqs == 1..MaxReq
FrontReqs == 1..MaxFront

\* ------------------------------------------------------- query parameters
\* request.args.get('delay') / request.query.get('delay'): the parameter is
\* absent (None) or a string.
NoParam == [present |-> FALSE, s |-> <<>>]
Param(s) == [present |-> TRUE, s |-> s]

\* What a client sends, with the number of milliseconds the text denotes
\* (kind "num"), or that it is absent or not a number.
Inputs ==
  { [q |-> NoParam,                  kind |-> "absent", ms |-> 0],
    [q |-> Param(<<"0">>),           kind |-> "num",    ms |-> 0],
    [q |-> Param(<<"2">>),           kind |-> "num",    ms |-> 2000],
    [q |-> Param(<<"0", ".", "5">>), kind |-> "num",    ms |-> 500],
    [q |-> Param(<<"a", "b">>),      kind |-> "bad",    ms |-> 0] }

Digits == <<"0", "1", "2", "3", "4", "5", "6", "7", "8", "9">>
IsDigit(c) == \E i \in 1..10 : Digits[i] = c
DigitVal(c) == (CHOOSE i \in 1..10 : Digits[i] = c) - 1
AllDigits(s) == \A i \in 1..Len(s) : IsDigit(s[i])

RECURSIVE DigitsVal(_)
DigitsVal(s) ==
  IF s = <<>> THEN 0
  ELSE 10 * DigitsVal(SubSeq(s, 1, Len(s) - 1)) + DigitVal(s[Len(s)])

HasSign(s) == s # <<>> /\ s[1] \in {"+", "-"}
Unsigned(s) == IF HasSign(s) THEN Tail(s) ELSE s
SignOf(s) == IF s # <<>> /\ s[1] = "-" THEN -1 ELSE 1

ValueError == [ok |-> FALSE, v |-> 0]
Value(v) == [ok |-> TRUE, v |-> v]

\* int(text): an optional sign and at least one decimal digit. The result is
\* a whole number of seconds.
ParseInt(s) ==
  LET u == Unsigned(s) IN
  IF u # <<>> /\ AllDigits(u) THEN Value(SignOf(s) * DigitsVal(u))
  ELSE ValueError

\* The first three fractional digits as milliseconds.
FracMs(f) ==
  LET d(i) == IF i <= Len(f) THEN DigitVal(f[i]) ELSE 0
  IN 100 * d(1) + 10 * d(2) + d(3)

\* float(text): an optional sign, digits, at most one point, at least one
\* digit. The result is in milliseconds.
ParseFloat(s) ==
  LET u == Unsigned(s)
      dots == {i \in 1..Len(u) : u[i] = "."}
      p == IF dots = {} THEN Len(u) + 1 ELSE CHOOSE i \in dots : TRUE
      ip == SubSeq(u, 1, p - 1)
      fp == SubSeq(u, p + 1, Len(u))
  IN IF /\ Cardinality(dots) <= 1
        /\ Len(ip) + Len(fp) > 0
        /\ AllDigits(ip) /\ AllDigits(fp)
     THEN Value(SignOf(s) * (Second * DigitsVal(ip) + FracMs(fp)))
     ELSE ValueError

\* str(n) of an int n.
RECURSIVE FormatNat(_)
FormatNat(n) ==
  IF n < 10 THEN <<Digits[n + 1]>>
  ELSE FormatNat(n \div 10) \o <<Digits[(n % 10) + 1]>>

FormatInt(n) == IF n < 0 THEN <<"-">> \o FormatNat(-n) ELSE FormatNat(n)

\* str(x) of a float x given in milliseconds: "1.0", "0.5", "0.25".
FormatFloat(ms) ==
  LET a == IF ms < 0 THEN -ms ELSE ms
      f == a % Second
      frac == IF f % 100 = 0 THEN <<Digits[(f \div 100) + 1]>>
              ELSE IF f % 10 = 0
                   THEN <<Digits[(f \div 100) + 1], Digits[((f \div 10) % 10) + 1]>>
                   ELSE <<Digits[(f \div 100) + 1], Digits[((f \div 10) % 10) + 1],
                          Digits[(f % 10) + 1]>>
  IN (IF ms < 0 THEN <<"-">> ELSE <<>>) \o FormatNat(a \div Second) \o <<".">> \o frac

\* Variant: the default is never taken.
FalsyNever(q) == FALSE

\* `x or 1`: None and the empty string are falsy.
Falsy(q) == ~q.present \/ q.s = <<>>

\* ------------------------------------------------------------------ state
VARIABLES
  now,        \* the clock, in ticks
  slow,       \* Delay Service: the request of each id and its handler's state
  front,      \* Front Service: the request of each id and its handler's state
  conn,       \* Database variant: the connection each request opened
  completed   \* Delay Service: ids in the order their responses were sent

vars == <<now, slow, front, conn, completed>>

NowMs == now * TickMs

NoSlow ==
  [st |-> "none", query |-> NoParam, kind |-> "absent", want |-> 0,
   recvAt |-> 0, delay |-> 0, deadline |-> 0,
   status |-> 0, body |-> "", sentAt |-> 0]

NoFront ==
  [svc |-> "none", pc |-> "idle", query |-> NoParam, kind |-> "absent", want |-> 0,
   recvAt |-> 0, delay |-> 0, gets |-> 0, fault |-> "none", getAt |-> 0, qStart |-> 0,
   status |-> 0, body |-> "", rows |-> <<>>, sentAt |-> 0]

Init ==
  /\ now = 0
  /\ slow = [r \in Reqs |-> NoSlow]
  /\ front = [r \in Reqs |-> NoFront]
  /\ conn = [r \in Reqs |-> "none"]
  /\ completed = <<>>

Used(r) == slow[r].st # "none" \/ front[r].svc # "none"
\* Ids are handed out in order.
Fresh(r) == ~Used(r) /\ \A o \in Reqs : o < r => Used(o)

\* One deployment is exercised in a run: the clients address the Delay
\* Service itself, or one of the two variants of the Front Service.
Alone(svc) == \A o \in Reqs : Used(o) => front[o].svc = svc

\* ------------------------------------------------------------ the network
\* What becomes of an outbound GET: it reaches the Delay Service, the
\* connection is refused, or it is accepted and never answered.
GetOutcomes == {"sent", "refused", "hung"}

\* The GET on the wire (or lost), as the Delay Service will see it.
Outbound(o, q, kind, want) ==
  [NoSlow EXCEPT !.st = o, !.query = q, !.kind = kind, !.want = want]

\* ---------------------------------------------------------- Delay Service
\* float(request.query.get('delay') or 1)
SlowDelay(q) == IF Falsy(q) THEN Value(1 * Second) ELSE ParseFloat(q.s)

\* Variant: the sleep returns at once.
SleepDeadlineNone(t, d) == t

\* asyncio.sleep(delay): the timer's deadline; a delay <= 0 yields once.
SleepDeadline(t, d) == IF d <= 0 THEN t ELSE t + d

\* A client's GET to the Delay Service.
ClientGet(r, i) ==
  /\ Fresh(r)
  /\ Alone("none")
  /\ slow' = [slow EXCEPT ![r] = Outbound("sent", i.q, i.kind, i.ms)]
  /\ UNCHANGED <<now, front, conn, completed>>

\* handle(), up to the await: parse the delay and start to sleep. A
\* ValueError leaves the handler; aiohttp answers 500.
Handle(r) ==
  /\ slow[r].st = "sent"
  /\ LET d == SlowDelay(slow[r].query) IN
       slow' = [slow EXCEPT ![r] =
         IF d.ok
         THEN [@ EXCEPT !.st = "sleeping", !.recvAt = NowMs, !.delay = d.v,
                        !.deadline = SleepDeadline(NowMs, d.v)]
         ELSE [@ EXCEPT !.st = "done", !.recvAt = NowMs, !.status = 500,
                        !.body = "500 Internal Server Error", !.sentAt = NowMs]]
  /\ UNCHANGED <<now, front, conn, completed>>

Sleeping == {r \in Reqs : slow[r].st = "sleeping"}

\* Variant: a blocking sleep; the handlers finish in the order they began.
NextTimerFifo(r) ==
  /\ r \in Sleeping
  /\ slow[r].deadline <= NowMs
  /\ \A o \in Sleeping : slow[r].recvAt <= slow[o].recvAt

\* The event loop runs the timers that are due, earliest deadline first.
NextTimer(r) ==
  /\ r \in Sleeping
  /\ slow[r].deadline <= NowMs
  /\ \A o \in Sleeping : slow[r].deadline <= slow[o].deadline

\* handle(), after the await: the response.
Wake(r) ==
  /\ NextTimer(r)
  /\ slow' = [slow EXCEPT ![r] =
       [@ EXCEPT !.st = "done", !.status = 200, !.body = "slow api response",
                 !.sentAt = NowMs]]
  /\ completed' = Append(completed, r)
  /\ UNCHANGED <<now, front, conn>>

\* ------------------------------------------- Front Service, API variant
\* int(request.args.get('delay') or 1), in seconds
AppDelay(q) == IF Falsy(q) THEN Value(1) ELSE ParseInt(q.s)

\* Variant: half the delay is forwarded, as a float.
AppQueryHalf(d) == Param(FormatFloat((d * Second) \div 2))

\* f'{api_url}?delay={delay}'
AppQuery(d) == Param(FormatInt(d))

\* Variant: a handler maps the exception to a client error.
FaultAsClientError(f, kind) ==
  [f EXCEPT !.pc = "done", !.fault = kind, !.status = 400,
            !.body = "Bad Request", !.sentAt = NowMs]

\* An unhandled exception leaves index(); Flask answers 500.
Fault(f, kind) ==
  [f EXCEPT !.pc = "done", !.fault = kind, !.status = 500,
            !.body = "Internal Server Error", !.sentAt = NowMs]

\* Variant: requests.get gives up after one second.
RespondedOrTimedOut(r) ==
  \/ slow[r].st = "done"
  \/ slow[r].st = "hung" /\ NowMs >= front[r].getAt + Second

\* requests.get returns when the response has arrived; no timeout is given.
Responded(r) == slow[r].st = "done"

\* index(), up to the wait in requests.get: parse the delay, send the GET.
AppIndex(r, i, o) ==
  /\ r \in FrontReqs
  /\ Fresh(r)
  /\ Alone("app")
  /\ LET f == [NoFront EXCEPT !.svc = "app", !.query = i.q, !.kind = i.kind,
                              !.want = i.ms, !.recvAt = NowMs]
         d == AppDelay(i.q)
     IN IF ~d.ok
        THEN /\ front' = [front EXCEPT ![r] = Fault(f, "parse")]
             /\ slow' = slow
        ELSE LET g == [f EXCEPT !.delay = d.v * Second, !.gets = 1, !.getAt = NowMs]
             IN /\ front' = [front EXCEPT ![r] =
                     IF o = "refused" THEN Fault(g, "api")
                     ELSE [g EXCEPT !.pc = "calling"]]
                /\ slow' = [slow EXCEPT ![r] =
                     Outbound(o, AppQuery(d.v), "num", d.v * Second)]
  /\ UNCHANGED <<now, conn, completed>>

\* index(), after requests.get: 'Hi there! ' + resp.text
AppReturn(r) ==
  /\ front[r].svc = "app"
  /\ front[r].pc = "calling"
  /\ Responded(r)
  /\ front' = [front EXCEPT ![r] =
       [@ EXCEPT !.pc = "done", !.status = 200,
                 !.body = "Hi there! " \o slow[r].body, !.sentAt = NowMs]]
  /\ UNCHANGED <<now, slow, conn, completed>>

\* -------------------------------------- Front Service, Database variant
ConnOutcomes == {"open", "failed"}

\* float(request.args.get('delay') or 1), in milliseconds
DbDelay(q) == IF Falsy(q) THEN Value(1 * Second) ELSE ParseFloat(q.s)

\* delay/2
Half(d) == d \div 2

\* f'{api_url}?delay={delay/2}'
DbQuery(d) == Param(FormatFloat(Half(d)))

\* index(), up to the wait in requests.get: connect, parse the delay, send
\* the GET. The connection stays open when a later line raises.
DbIndex(r, i, c, o) ==
  /\ r \in FrontReqs
  /\ Fresh(r)
  /\ Alone("db")
  /\ LET f == [NoFront EXCEPT !.svc = "db", !.query = i.q, !.kind = i.kind,
                              !.want = i.ms, !.recvAt = NowMs]
         d == DbDelay(i.q)
     IN IF c = "failed"
        THEN /\ front' = [front EXCEPT ![r] = Fault(f, "db")]
             /\ UNCHANGED <<slow, conn>>
        ELSE /\ conn' = [conn EXCEPT ![r] = "open"]
             /\ IF ~d.ok
                THEN /\ front' = [front EXCEPT ![r] = Fault(f, "parse")]
                     /\ slow' = slow
                ELSE LET g == [f EXCEPT !.delay = d.v, !.gets = 1, !.getAt = NowMs]
                     IN /\ front' = [front EXCEPT ![r] =
                             IF o = "refused" THEN Fault(g, "api")
                             ELSE [g EXCEPT !.pc = "calling"]]
                        /\ slow' = [slow EXCEPT ![r] =
                             Outbound(o, DbQuery(d.v), "num", Half(d.v))]
  /\ UNCHANGED <<now, completed>>

\* index(), from the return of requests.get to the wait in cur.execute:
\* the query starts once the downstream response is in.
DbExecute(r) ==
  /\ front[r].svc = "db"
  /\ front[r].pc = "calling"
  /\ Responded(r)
  /\ front' = [front EXCEPT ![r] = [@ EXCEPT !.pc = "querying", !.qStart = NowMs]]
  /\ UNCHANGED <<now, slow, conn, completed>>

\* Variant: the query runs while the downstream call is in flight.
QueryFinishedConcurrent(r) ==
  NowMs >= SleepDeadline(front[r].getAt, Half(front[r].delay))

\* SELECT pg_sleep(delay/2): the server sleeps from the start of the query.
QueryFinished(r) ==
  NowMs >= SleepDeadline(front[r].qStart, Half(front[r].delay))

\* index(), after cur.execute: fetch the row and format the response. The
\* connection is not closed.
DbReturn(r) ==
  /\ front[r].svc = "db"
  /\ front[r].pc = "querying"
  /\ QueryFinished(r)
  /\ front' = [front EXCEPT ![r] =
       [@ EXCEPT !.pc = "done", !.status = 200,
                 !.body = "Hi there! " \o slow[r].body \o " ",
                 !.rows = <<<<"", front[r].qStart>>>>, !.sentAt = NowMs]]
  /\ UNCHANGED <<now, slow, conn, completed>>

\* The connection object is closed only when the interpreter frees it, at
\* some time after index() has left.
ConnDealloc(r) ==
  /\ front[r].pc = "done"
  /\ conn[r] = "open"
  /\ conn' = [conn EXCEPT ![r] = "closed"]
  /\ UNCHANGED <<now, slow, front, completed>>

Tick ==
  /\ now < MaxTime
  /\ now' = now + 1
  /\ UNCHANGED <<slow, front, conn, completed>>

Next ==
  \/ Tick
  \/ \E r \in Reqs, i \in Inputs : ClientGet(r, i)
  \/ \E r \in Reqs : Handle(r)
  \/ \E r \in Reqs : Wake(r)
  \/ \E r \in Reqs, i \in Inputs, o \in GetOutcomes : AppIndex(r, i, o)
  \/ \E r \in Reqs : AppReturn(r)
  \/ \E r \in Reqs, i \in Inputs, c \in ConnOutcomes, o \in GetOutcomes : DbIndex(r, i, c, o)
  \/ \E r \in Reqs : DbExecute(r)
  \/ \E r \in Reqs : DbReturn(r)
  \/ \E r \in Reqs : ConnDealloc(r)

Spec == Init /\ [][Next]_vars

\* ================================================================ claims
\* The delay a request asks for, in milliseconds: the number its text
\* denotes, or one second when the parameter is absent.
Asked(kind, want) == IF kind = "absent" THEN 1 * Second ELSE want

Slept(r) == slow[r].st \in {"sleeping", "done"} /\ slow[r].status # 500
Answered(r) == slow[r].st = "done" /\ slow[r].status = 200
FrontOk(r) == front[r].pc = "done" /\ front[r].status = 200
Latency(r) == front[r].sentAt - front[r].recvAt

\* a's response was sent before b's.
Before(a, b) ==
  \E i, j \in 1..Len(completed) : completed[i] = a /\ completed[j] = b /\ i < j

C2_DeadlineOrder ==
  \A a, b \in Reqs :
    ( /\ Slept(a) /\ Answered(b)
      /\ slow[a].kind # "bad" /\ slow[b].kind # "bad"
      /\ slow[a].recvAt + Asked(slow[a].kind, slow[a].want)
           < slow[b].recvAt + Asked(slow[b].kind, slow[b].want) )
      => Before(a, b)

C2_Witness ==
  \E a, b \in Reqs :
    /\ slow[a].st = "sleeping" /\ Answered(b)
    /\ slow[a].recvAt < slow[b].recvAt
    /\ slow[a].want > slow[b].want /\ slow[b].want > 0

\* C3: a request to the Delay Service with a non-negative numeric delay d is
\* answered no earlier than d after it was received, with the body
\* "slow api response".
C3_NotBefore ==
  \A r \in Reqs :
    (slow[r].st = "done" /\ slow[r].kind = "num" /\ slow[r].want >= 0)
      => /\ slow[r].status = 200
         /\ slow[r].body = "slow api response"
         /\ slow[r].sentAt >= slow[r].recvAt + slow[r].want

C3_Witness ==
  \E r \in Reqs :
    /\ front[r].svc = "none"
    /\ Answered(r) /\ slow[r].kind = "num" /\ slow[r].want = 500
    /\ slow[r].sentAt > slow[r].recvAt

\* C4, as claimed: a request to the API variant with any non-negative delay,
\* whole or fractional, succeeds with the body "Hi there! slow api response",
\* no earlier than the delay after it was received (the Delay Service being
\* reachable).
C4_AnyDelay ==
  \A r \in Reqs :
    ( /\ front[r].svc = "app" /\ front[r].pc = "done"
      /\ front[r].kind = "num" /\ front[r].want >= 0
      /\ slow[r].st # "refused" )
      => /\ front[r].status = 200
         /\ front[r].body = "Hi there! slow api response"
         /\ Latency(r) >= front[r].want

\* C5: a request without a delay parameter is handled with a delay of 1: the
\* Delay Service sleeps 1, the API variant forwards delay=1, the Database
\* variant forwards 0.5 and queries pg_sleep(0.5).
C5_DefaultOne ==
  \A r \in Reqs :
    /\ (front[r].svc = "none" /\ slow[r].kind = "absent" /\ slow[r].st \notin {"none", "sent"})
         => /\ Slept(r)
            /\ slow[r].delay = 1 * Second
            /\ slow[r].deadline = slow[r].recvAt + 1 * Second
    /\ (front[r].svc = "app" /\ front[r].kind = "absent")
         => /\ front[r].fault # "parse"
            /\ front[r].delay = 1 * Second
            /\ slow[r].query = Param(<<"1">>)
            /\ Slept(r) => slow[r].delay = 1 * Second
    /\ (front[r].svc = "db" /\ front[r].kind = "absent" /\ conn[r] # "none")
         => /\ front[r].fault # "parse"
            /\ front[r].delay = 1 * Second
            /\ slow[r].query = Param(<<"0", ".", "5">>)
            /\ Slept(r) => 2 * slow[r].delay = 1 * Second
            /\ FrontOk(r) => 2 * (front[r].sentAt - front[r].qStart) >= 1 * Second

C5_Witness ==
  \E r \in Reqs :
    /\ front[r].svc = "db" /\ front[r].kind = "absent" /\ FrontOk(r)
    /\ slow[r].delay = 500

C5_WitnessApi ==
  \E r \in Reqs : front[r].svc = "none" /\ slow[r].kind = "absent" /\ Answered(r)

C5_WitnessApp ==
  \E r \in Reqs : front[r].svc = "app" /\ front[r].kind = "absent" /\ FrontOk(r)

\* C6, as claimed: a request whose delay is present and not a number ends in
\* a client error (4xx), with no downstream call and no sleep.
C6_ClientError ==
  \A r \in Reqs :
    /\ (front[r].svc = "none" /\ slow[r].kind = "bad" /\ slow[r].st \notin {"none", "sent"})
         => /\ slow[r].st = "done"
            /\ slow[r].status \in 400..499
    /\ (front[r].svc # "none" /\ front[r].kind = "bad" /\ front[r].fault # "db")
         => /\ front[r].pc = "done"
            /\ front[r].status \in 400..499
            /\ front[r].gets = 0

\* C7, as claimed: when a request to the Database variant has finished, the
\* connection it opened is no longer open.
C7_Released ==
  \A r \in Reqs :
    (front[r].svc = "db" /\ front[r].pc = "done") => conn[r] # "open"

\* C8: a request the API variant accepts sends one GET and no more, with
\* the delay the client sent (1 when none), and is answered only after the
\* downstream response.
C8_OneGet ==
  \A r \in Reqs :
    front[r].svc = "app" =>
      /\ front[r].gets <= 1
      /\ front[r].fault # "parse" =>
           /\ front[r].gets = 1
           /\ slow[r].st # "none"
           /\ Slept(r) => slow[r].delay = Asked(front[r].kind, front[r].want)
      /\ FrontOk(r) =>
           /\ slow[r].st = "done"
           /\ front[r].sentAt >= slow[r].sentAt
           /\ front[r].body = "Hi there! " \o slow[r].body

C8_Witness ==
  \E r \in Reqs :
    /\ front[r].svc = "app" /\ FrontOk(r)
    /\ front[r].kind = "num" /\ front[r].want = 2 * Second

\* C9: a request whose outbound GET is never answered never completes.
C9_NoTimeout ==
  \A r \in Reqs :
    (front[r].svc # "none" /\ slow[r].st = "hung")
      => front[r].pc = "calling" /\ front[r].status = 0

C9_Witness ==
  \E r \in Reqs :
    /\ front[r].svc # "none" /\ slow[r].st = "hung"
    /\ NowMs >= front[r].getAt + front[r].delay + 1 * Second

\* C10: a malformed delay, an unreachable Delay Service and a failed
\* database connection each end the request with the same 500 response,
\* with no retry and no later step of the handler run.
C10_Unrecovered ==
  \A r \in Reqs :
    front[r].svc # "none" =>
      /\ front[r].gets <= 1
      /\ (front[r].kind = "bad" /\ (front[r].svc = "db" => conn[r] # "none"))
           => /\ front[r].pc = "done" /\ front[r].status = 500
              /\ front[r].body = "Internal Server Error"
              /\ front[r].gets = 0 /\ slow[r].st = "none"
              /\ front[r].rows = <<>>
      /\ slow[r].st = "refused"
           => /\ front[r].pc = "done" /\ front[r].status = 500
              /\ front[r].body = "Internal Server Error"
              /\ front[r].gets = 1
              /\ front[r].rows = <<>>
      /\ (front[r].svc = "db" /\ conn[r] = "none")
           => /\ front[r].pc = "done" /\ front[r].status = 500
              /\ front[r].body = "Internal Server Error"
              /\ front[r].gets = 0 /\ slow[r].st = "none"
              /\ front[r].rows = <<>>

C10_Witness ==
  \E r \in Reqs :
    /\ front[r].svc = "db" /\ conn[r] # "none"
    /\ slow[r].st = "refused" /\ front[r].pc = "done"
    /\ now > 0
====
